---- MODULE Spec2Model ----
(***************************************************************************)
(* AIModelLoader (dist/lib/aiModelLoader.js): a cache of lazily loaded     *)
(* models.  The state is the loader's entry table, the clock read by       *)
(* Date.now(), the loadModel calls suspended at one of loadModel's awaits  *)
(* or on a promise they returned, and the outcomes the last step handed    *)
(* to the callers of loadModel.                                            *)
(***************************************************************************)
EXTENDS Integers, Sequences, FiniteSets, TLC

\* ---------------------------------------------------------------- bounds
MaxTime == 2
MaxCalls == 2
MaxLoads == 2
LruMaxLoads == 3
DupMaxLoads == 3

\* ------------------------------------------------------- program constants
\* null (entry.model, entry.loadPromise)
NULL == 0
\* a falsy value other than null that a loadModel function can resolve to
\* (0, false, ''): entry.model && ... treats it like null
FALSY == 1

\* ModelLoadingStatus
IDLE == "idle"
LOADING == "loading"
LOADED == "loaded"
ERROR == "error"

\* the model names the callers use, and the loadModel functions
Names == {"a", "b"}
LruNames == {"x", "y", "z"}
DupNames == {"a"}
\* the loadModel functions of the callers that pass a config to loadModel
Loaders == {"load", "reload"}
LateConfigs == [name : Names, ctor : Loaders]
Ctors == {"load"}
\* AIModelConfig: a name and a loadModel function
Configs(N) == [name : N, ctor : Ctors]
\* the optional config parameter of loadModel left out
NoConfig == [name |-> "", ctor |-> ""]

\* the object produced by the p-th invocation of a loadModel function
Obj(p) == p + 1
\* JavaScript truthiness of a model value
Truthy(v) == v >= 2

VARIABLES
    maxCacheSize, \* this.maxCacheSize, set by the constructor
    cacheTtl,     \* this.cacheTtl, set by the constructor
    modelCache,   \* the Map: its entries in insertion order
    now,          \* Date.now()
    calls,        \* the loadModel calls that are suspended, oldest first
    settled,      \* the loadModel calls the last step settled, and how
    budget        \* how many more loadModel functions the callers let start

vars == <<maxCacheSize, cacheTtl, modelCache, now, calls, settled, budget>>

\* ------------------------------------------------------------ the Map
\* the position in the Map of the entry stored under name, 0 if none
Get(tbl, name) ==
    IF \E i \in 1..Len(tbl) : tbl[i].config.name = name
    THEN CHOOSE i \in 1..Len(tbl) : tbl[i].config.name = name
    ELSE 0

\* modelCache.has(name)
Has(tbl, name) == Get(tbl, name) # 0

\* getModelStatus(modelName)
getModelStatus(name) ==
    IF Has(modelCache, name)
    THEN modelCache[Get(modelCache, name)].status
    ELSE IDLE

\* the positions of the entries of the Map that are LOADED
LoadedSet(tbl) == {i \in 1..Len(tbl) : tbl[i].status = LOADED}

\* a fresh entry, as registerModel builds it
NewEntry(config, t) ==
    [model |-> NULL, status |-> IDLE, lastUsed |-> t, loadPromise |-> NULL,
     config |-> config]

\* registerModel(config) had it overwritten the entry of a registered name
registerModelOverwrites(tbl, config, t) ==
    IF Has(tbl, config.name)
    THEN [tbl EXCEPT ![Get(tbl, config.name)] = NewEntry(config, t)]
    ELSE Append(tbl, NewEntry(config, t))

\* registerModel(config) at time t: the Map afterwards
registerModel(tbl, config, t) ==
    IF Has(tbl, config.name)
    THEN tbl
    ELSE Append(tbl, NewEntry(config, t))

\* unloadModel(modelName) had it not tested the status for LOADED
unloadModelAnyStatus(tbl, name) ==
    LET i == Get(tbl, name) IN
    IF i = 0
    THEN tbl
    ELSE [tbl EXCEPT ![i].model = NULL, ![i].status = IDLE]

\* unloadModel(modelName): the Map afterwards
unloadModel(tbl, name) ==
    LET i == Get(tbl, name) IN
    IF i = 0 \/ tbl[i].status # LOADED
    THEN tbl
    ELSE [tbl EXCEPT ![i].model = NULL, ![i].status = IDLE]

\* the sort had its comparator been (a, b) => b.lastUsed - a.lastUsed
InsertByLastUsedDescending(acc, e) ==
    LET k == Cardinality({i \in 1..Len(acc) : acc[i].lastUsed >= e.lastUsed})
    IN SubSeq(acc, 1, k) \o <<e>> \o SubSeq(acc, k + 1, Len(acc))

\* Array.prototype.sort with (a, b) => a.lastUsed - b.lastUsed is stable:
\* e goes behind the entries of acc that are not younger than it
InsertByLastUsed(acc, e) ==
    LET k == Cardinality({i \in 1..Len(acc) : acc[i].lastUsed <= e.lastUsed})
    IN SubSeq(acc, 1, k) \o <<e>> \o SubSeq(acc, k + 1, Len(acc))

RECURSIVE SortByLastUsed(_, _)
SortByLastUsed(todo, acc) ==
    IF todo = <<>> THEN acc
    ELSE SortByLastUsed(Tail(todo), InsertByLastUsed(acc, Head(todo)))

\* the entries of the Map that are LOADED, oldest lastUsed first
LoadedOldestFirst(tbl) ==
    SortByLastUsed(SelectSeq(tbl, LAMBDA e : e.status = LOADED), <<>>)

\* the while loop of ensureCacheSpace: modelCache.size is the number of
\* entries of the Map, which unloadModel does not change
RECURSIVE EvictLoop(_, _)
EvictLoop(entries, tbl) ==
    IF Len(entries) > 0 /\ Len(tbl) > maxCacheSize
    THEN EvictLoop(Tail(entries), unloadModel(tbl, Head(entries).config.name))
    ELSE tbl

\* ensureCacheSpace() had it compared the number of LOADED entries, not
\* modelCache.size, with maxCacheSize before it unloads anything
ensureCacheSpaceByLoaded(tbl) ==
    IF Cardinality(LoadedSet(tbl)) <= maxCacheSize
    THEN tbl
    ELSE EvictLoop(LoadedOldestFirst(tbl), tbl)

\* ensureCacheSpace() had it neither the filter for LOADED entries nor
\* unloadModel its test of the status: every entry is reset
ensureCacheSpaceUnfiltered(tbl) ==
    IF Len(tbl) <= maxCacheSize
    THEN tbl
    ELSE [i \in 1..Len(tbl) |-> [tbl[i] EXCEPT !.model = NULL, !.status = IDLE]]

\* ensureCacheSpace() had it not compared modelCache.size with
\* maxCacheSize, at line 152 or in the loop: every LOADED entry is unloaded
ensureCacheSpaceNoThreshold(tbl) ==
    [i \in 1..Len(tbl) |-> unloadModel(tbl, tbl[i].config.name)[i]]

\* ensureCacheSpace(): the Map afterwards.  Its body has no await, so it
\* runs to its end inside the call, before await suspends loadModel.
ensureCacheSpace(tbl) ==
    IF Len(tbl) <= maxCacheSize
    THEN tbl
    ELSE EvictLoop(LoadedOldestFirst(tbl), tbl)

\* -------------------------------------------------------------- calls
\* A suspended call: pc is "evicted" (at await this.ensureCacheSpace()),
\* "awaiting" (at await entry.loadPromise) or "joined" (it returned
\* entry.loadPromise).  entry is the key of the entry object the call
\* holds, "" once dispose() has cleared the Map: the object is then out of
\* the reach of every other operation and what the call writes to it is
\* seen by nobody.  ctor is the loadModel function the call invokes: the
\* config passed to the call or else the entry's, neither of which changes
\* between the call and the read at line 101.  found is the status the
\* call found the entry in and evicts the number of entries its
\* ensureCacheSpace() unloaded; the program keeps no such record, the
\* properties below read them.  ahead is the number of calls whose
\* resumption from await this.ensureCacheSpace() is in the microtask queue
\* before this call's resumption from await entry.loadPromise can be.
Call(name, pc, p, ctor, detached, found, evicts) ==
    [name |-> name, entry |-> name, pc |-> pc, promise |-> p, ctor |-> ctor,
     detached |-> detached, found |-> found, evicts |-> evicts, ahead |-> 0]

\* A settled call: via is "hit" (return entry.model), "throw" (not
\* registered), "own" (the call that invoked the loadModel function) or
\* "join"; detached: preloadModel's call, whose rejection goes to its catch
\* handler
Outcome(name, via, kind, v, detached, found, evicts) ==
    [name |-> name, via |-> via, kind |-> kind, val |-> v, detached |-> detached,
     found |-> found, evicts |-> evicts]

\* The promises and objects something still refers to.  The promise a
\* loadModel function returns, the object it resolves to and the error it
\* rejects with are new: they differ from every promise, object and error
\* in use, and are numbered with the least number that is not in use.
InUse ==
    {modelCache[i].loadPromise : i \in 1..Len(modelCache)}
    \cup {modelCache[i].model - 1 : i \in 1..Len(modelCache)}
    \cup {calls[c].promise : c \in 1..Len(calls)}

NewPromise ==
    CHOOSE p \in 1..(Cardinality(InUse) + 1) :
        /\ p \notin InUse
        /\ \A q \in 1..(p - 1) : q \in InUse

\* loadModel returns entry.model when this holds (line 88)
IsCacheHit(entry) == Truthy(entry.model) /\ entry.status = LOADED

\* line 92 had it tested the status for LOADED instead of LOADING
IsInFlightWhenLoaded(entry) == entry.status = LOADED /\ entry.loadPromise # NULL

\* loadModel returns entry.loadPromise when this holds (line 92)
IsInFlight(entry) == entry.status = LOADING /\ entry.loadPromise # NULL

\* the config whose loadModel function is invoked (line 101)
ModelConfig(config, entry) == IF config # NoConfig THEN config ELSE entry.config

\* line 86 had it come after the cache-hit return of lines 88-90
TouchOnMiss(tbl, i, t) ==
    IF IsCacheHit(tbl[i]) THEN tbl ELSE [tbl EXCEPT ![i].lastUsed = t]

\* entry.lastUsed = Date.now() (line 86)
Touch(tbl, i, t) == [tbl EXCEPT ![i].lastUsed = t]

\* loadModel(modelName, config), from the call to its first await or to
\* its return; detached: the call is preloadModel's.  The Map afterwards,
\* the call if it is suspended, the number of constructions it starts and
\* the outcome if it has settled.
loadModel(name, config, detached) ==
    LET tbl == IF ~Has(modelCache, name) /\ config # NoConfig
               THEN registerModel(modelCache, config, now)
               ELSE modelCache
        i   == Get(tbl, name)
    IN
    IF i = 0
    THEN \* throw new Error("Model ... is not registered.")
         [modelCache |-> tbl, suspends |-> <<>>, starts |-> 0,
          settled |-> <<Outcome(name, "throw", "notRegistered", NULL, detached, IDLE, 0)>>]
    ELSE LET used == Touch(tbl, i, now) IN
         IF IsCacheHit(used[i])
         THEN [modelCache |-> used, suspends |-> <<>>, starts |-> 0,
               settled |-> <<Outcome(name, "hit", "value", used[i].model, detached,
                                     LOADED, 0)>>]
         ELSE IF IsInFlight(used[i])
         THEN [modelCache |-> used,
               suspends |-> <<Call(name, "joined", used[i].loadPromise, "", detached,
                                   LOADING, 0)>>,
               starts |-> 0, settled |-> <<>>]
         ELSE LET loading == [used EXCEPT ![i].status = LOADING]
                  room    == ensureCacheSpace(loading)
              IN
              [modelCache |-> room,
               suspends |-> <<Call(name, "evicted", NULL, ModelConfig(config, used[i]).ctor,
                                   detached, used[i].status,
                                   Cardinality(LoadedSet(loading))
                                     - Cardinality(LoadedSet(room)))>>,
               starts |-> 1, settled |-> <<>>]

\* a loadModel call as a step: the callers make no more than MaxCalls
\* calls at a time and start no more constructions than budget
LoadModelCall(name, config, detached) ==
    LET r == loadModel(name, config, detached) IN
    /\ Len(calls) + Len(r.suspends) <= MaxCalls
    /\ budget >= r.starts
    /\ modelCache' = r.modelCache
    /\ calls' = calls \o r.suspends
    /\ budget' = budget - r.starts
    /\ settled' = r.settled
    /\ UNCHANGED <<maxCacheSize, cacheTtl, now>>

\* registerModel(config)
RegisterModel(config) ==
    /\ modelCache' = registerModel(modelCache, config, now)
    /\ settled' = <<>>
    /\ UNCHANGED <<maxCacheSize, cacheTtl, now, calls, budget>>

\* getModelStatus(modelName) had it updated lastUsed like loadModel does
GetModelStatusTouches(name) ==
    /\ settled' = <<Outcome(name, "status", "value", NULL, FALSE, getModelStatus(name), 0)>>
    /\ modelCache' = IF Has(modelCache, name)
                     THEN [modelCache EXCEPT ![Get(modelCache, name)].lastUsed = now]
                     ELSE modelCache
    /\ UNCHANGED <<maxCacheSize, cacheTtl, now, calls, budget>>

\* getModelStatus(modelName): the caller is handed the status, as the
\* found field of the outcome
GetModelStatus(name) ==
    /\ settled' = <<Outcome(name, "status", "value", NULL, FALSE, getModelStatus(name), 0)>>
    /\ UNCHANGED <<maxCacheSize, cacheTtl, modelCache, now, calls, budget>>

\* loadModel(modelName, config) had it registered a name it does not know
\* under a config of its own when none is passed
LoadModelRegistersUnknown(name, config) ==
    LoadModelCall(name,
                  IF config = NoConfig /\ ~Has(modelCache, name)
                  THEN [name |-> name, ctor |-> "load"]
                  ELSE config,
                  FALSE)

\* loadModel(modelName, config) had it not lines 78-80: no registration
\* of a name the Map does not have
LoadModelNoLateRegistration(name, config) ==
    LoadModelCall(name, IF Has(modelCache, name) THEN config ELSE NoConfig, FALSE)

\* loadModel(modelName, config) had it stored the config it is passed in
\* the entry (entry.config = config) when it starts a construction
LoadModelStoresConfig(name, config) ==
    LET r == loadModel(name, config, FALSE)
        i == Get(r.modelCache, name)
    IN
    /\ Len(calls) + Len(r.suspends) <= MaxCalls
    /\ budget >= r.starts
    /\ modelCache' = IF r.starts = 1 /\ config # NoConfig /\ config.name = name
                     THEN [r.modelCache EXCEPT ![i].config = config]
                     ELSE r.modelCache
    /\ calls' = calls \o r.suspends
    /\ budget' = budget - r.starts
    /\ settled' = r.settled
    /\ UNCHANGED <<maxCacheSize, cacheTtl, now>>

\* loadModel(modelName, config) up to its first suspension
LoadModel(name, config) == LoadModelCall(name, config, FALSE)

\* loadModel had it looked the entry up again by name after its awaits
\* (this.modelCache.get(modelName)) instead of keeping const entry
OnEntryByName(c, upd) ==
    LET i == Get(modelCache, calls[c].name) IN
    IF i = 0
    THEN modelCache
    ELSE [modelCache EXCEPT
            ![i] = [f \in DOMAIN modelCache[i] |->
                      IF f \in DOMAIN upd THEN upd[f] ELSE modelCache[i][f]]]

\* the Map once call c has assigned the fields of the record upd to the
\* entry object it holds (unchanged, once the object is out of the Map)
OnEntry(c, upd) ==
    LET i == Get(modelCache, calls[c].entry) IN
    IF i = 0
    THEN modelCache
    ELSE [modelCache EXCEPT
            ![i] = [f \in DOMAIN modelCache[i] |->
                      IF f \in DOMAIN upd THEN upd[f] ELSE modelCache[i][f]]]

\* the calls at await this.ensureCacheSpace() other than call c
WaitingToInvoke(c) == {d \in 1..Len(calls) : d # c /\ calls[d].pc = "evicted"}

\* loadModel resumes after await this.ensureCacheSpace(): it invokes the
\* loadModel function, stores its promise and awaits it.  The promise of
\* ensureCacheSpace() is fulfilled when it is returned, so the resumptions
\* are microtasks queued in the order of the calls: the oldest call at
\* this await resumes first, and the others at this await resume before
\* the job that await entry.loadPromise queues once the promise settles.
InvokeLoad(c) ==
    LET p == NewPromise IN
    /\ calls[c].pc = "evicted"
    /\ \A d \in WaitingToInvoke(c) : d > c
    /\ modelCache' = OnEntry(c, [loadPromise |-> p])
    /\ calls' = [d \in 1..Len(calls) |->
                   IF d = c
                   THEN [calls[c] EXCEPT !.pc = "awaiting", !.promise = p,
                                         !.ahead = Cardinality(WaitingToInvoke(c))]
                   ELSE IF calls[d].ahead > 0
                   THEN [calls[d] EXCEPT !.ahead = calls[d].ahead - 1]
                   ELSE calls[d]]
    /\ settled' = <<>>
    /\ UNCHANGED <<maxCacheSize, cacheTtl, now, budget>>

\* the calls still suspended once promise p has settled
StillSuspended(p) == SelectSeq(calls, LAMBDA d : d.promise # p)

\* the promise p settles: the call awaiting it and the calls that returned
\* it (return entry.loadPromise) all settle the way p does
SettlePromise(p, kind, v) ==
    LET done == SelectSeq(calls, LAMBDA d : d.promise = p) IN
    [k \in 1..Len(done) |->
        Outcome(done[k].name, IF done[k].pc = "awaiting" THEN "own" ELSE "join",
                kind, v, done[k].detached, done[k].found, done[k].evicts)]

\* the values a loadModel function's p-th promise can resolve to
Resolutions(p) == {Obj(p), FALSY, NULL}

\* the awaited promise is fulfilled with v: loadModel stores the model and
\* returns it; finally clears loadPromise
SettleLoaded(c, v) ==
    LET p == calls[c].promise IN
    /\ calls[c].pc = "awaiting"
    /\ calls[c].ahead = 0
    /\ v \in Resolutions(p)
    /\ modelCache' = OnEntry(c, [model |-> v, status |-> LOADED, loadPromise |-> NULL])
    /\ calls' = StillSuspended(p)
    /\ settled' = SettlePromise(p, "value", v)
    /\ UNCHANGED <<maxCacheSize, cacheTtl, now, budget>>

\* the rejection had the catch block rethrown without setting ERROR
SettleFailedKeepsStatus(c) ==
    LET p == calls[c].promise IN
    /\ calls[c].pc = "awaiting"
    /\ calls[c].ahead = 0
    /\ modelCache' = OnEntry(c, [loadPromise |-> NULL])
    /\ calls' = StillSuspended(p)
    /\ settled' = SettlePromise(p, "error", p)
    /\ UNCHANGED <<maxCacheSize, cacheTtl, now, budget>>

\* the rejection had loadModel no finally block: loadPromise stays
SettleFailedKeepsPromise(c) ==
    LET p == calls[c].promise IN
    /\ calls[c].pc = "awaiting"
    /\ calls[c].ahead = 0
    /\ modelCache' = OnEntry(c, [status |-> ERROR])
    /\ calls' = StillSuspended(p)
    /\ settled' = SettlePromise(p, "error", p)
    /\ UNCHANGED <<maxCacheSize, cacheTtl, now, budget>>

\* the rejection had loadModel neither the catch nor the finally block:
\* the entry stays LOADING with the rejected promise
SettleFailedNoCleanup(c) ==
    LET p == calls[c].promise IN
    /\ calls[c].pc = "awaiting"
    /\ calls[c].ahead = 0
    /\ modelCache' = modelCache
    /\ calls' = StillSuspended(p)
    /\ settled' = SettlePromise(p, "error", p)
    /\ UNCHANGED <<maxCacheSize, cacheTtl, now, budget>>

\* the awaited promise is rejected (with the error p): catch sets ERROR and
\* rethrows; finally clears loadPromise
SettleFailed(c) ==
    LET p == calls[c].promise IN
    /\ calls[c].pc = "awaiting"
    /\ calls[c].ahead = 0
    /\ modelCache' = OnEntry(c, [status |-> ERROR, loadPromise |-> NULL])
    /\ calls' = StillSuspended(p)
    /\ settled' = SettlePromise(p, "error", p)
    /\ UNCHANGED <<maxCacheSize, cacheTtl, now, budget>>

\* preloadModel(modelName) had it not tested the status for IDLE
PreloadModelAnyStatus(name) == LoadModelCall(name, NoConfig, TRUE)

\* preloadModel(modelName) had it called loadModel without .catch(...)
PreloadModelNoCatch(name) ==
    LET i == Get(modelCache, name) IN
    IF i = 0 \/ modelCache[i].status # IDLE
    THEN /\ settled' = <<>>
         /\ UNCHANGED <<maxCacheSize, cacheTtl, modelCache, now, calls, budget>>
    ELSE LoadModelCall(name, NoConfig, FALSE)

\* preloadModel(modelName)
PreloadModel(name) ==
    LET i == Get(modelCache, name) IN
    IF i = 0 \/ modelCache[i].status # IDLE
    THEN /\ settled' = <<>>
         /\ UNCHANGED <<maxCacheSize, cacheTtl, modelCache, now, calls, budget>>
    ELSE LoadModelCall(name, NoConfig, TRUE)

\* unloadModel(modelName)
UnloadModel(name) ==
    /\ modelCache' = unloadModel(modelCache, name)
    /\ settled' = <<>>
    /\ UNCHANGED <<maxCacheSize, cacheTtl, now, calls, budget>>

\* cleanupExpiredModels() had it tested now - lastUsed >= cacheTtl
cleanupExpiredModelsAtTtl(tbl, t) ==
    [i \in 1..Len(tbl) |->
        IF tbl[i].status = LOADED /\ t - tbl[i].lastUsed >= cacheTtl
        THEN unloadModel(tbl, tbl[i].config.name)[i]
        ELSE tbl[i]]

\* cleanupExpiredModels() at time t: the Map afterwards
cleanupExpiredModels(tbl, t) ==
    [i \in 1..Len(tbl) |->
        IF tbl[i].status = LOADED /\ t - tbl[i].lastUsed > cacheTtl
        THEN unloadModel(tbl, tbl[i].config.name)[i]
        ELSE tbl[i]]

CleanupExpiredModels ==
    /\ modelCache' = cleanupExpiredModels(modelCache, now)
    /\ settled' = <<>>
    /\ UNCHANGED <<maxCacheSize, cacheTtl, now, calls, budget>>

\* dispose() had it unloaded every entry without modelCache.clear()
DisposeKeepsEntries ==
    /\ modelCache' = [i \in 1..Len(modelCache) |->
                        unloadModel(modelCache, modelCache[i].config.name)[i]]
    /\ settled' = <<>>
    /\ UNCHANGED <<maxCacheSize, cacheTtl, now, calls, budget>>

\* dispose(): unloadModel on every entry, then modelCache.clear(); the
\* suspended calls keep their entry objects, which the Map no longer holds
Dispose ==
    /\ modelCache' = <<>>
    /\ calls' = [c \in 1..Len(calls) |-> [calls[c] EXCEPT !.entry = ""]]
    /\ settled' = <<>>
    /\ UNCHANGED <<maxCacheSize, cacheTtl, now, budget>>

\* Date.now() advances
Tick ==
    /\ now < MaxTime
    /\ now' = now + 1
    /\ settled' = <<>>
    /\ UNCHANGED <<maxCacheSize, cacheTtl, modelCache, calls, budget>>

\* new AIModelLoader({ maxCacheSize: size, cacheTtl: ttl })
Constructed(size, ttl, loads) ==
    /\ maxCacheSize = size
    /\ cacheTtl = ttl
    /\ modelCache = <<>>
    /\ now = 0
    /\ calls = <<>>
    /\ settled = <<>>
    /\ budget = loads

\* the steps of the suspended calls and of the clock
Progress ==
    \/ Tick
    \/ \E c \in 1..Len(calls) : InvokeLoad(c)
    \/ \E c \in 1..Len(calls) : \E v \in Resolutions(calls[c].promise) : SettleLoaded(c, v)
    \/ \E c \in 1..Len(calls) : SettleFailed(c)

\* a loader with room for one model, used with two names
Init == Constructed(1, 1, MaxLoads)

Next ==
    \/ Progress
    \/ \E config \in Configs(Names) : RegisterModel(config)
    \/ \E name \in Names, config \in Configs(Names) \cup {NoConfig} :
          LoadModel(name, config)
    \/ \E name \in Names : PreloadModel(name)
    \/ \E name \in Names : UnloadModel(name)
    \/ \E name \in Names : GetModelStatus(name)
    \/ CleanupExpiredModels
    \/ Dispose

Spec == Init /\ [][Next]_vars

\* a loader with room for two models, used with three names by a caller
\* that awaits each loadModel call before it makes the next
LruInit == Constructed(2, 1, LruMaxLoads)

LruNext ==
    \/ Progress
    \/ \E config \in Configs(LruNames) : RegisterModel(config)
    \/ \E name \in LruNames : calls = <<>> /\ LoadModel(name, NoConfig)
    \/ \E name \in LruNames : UnloadModel(name)

LruSpec == LruInit /\ [][LruNext]_vars

\* a loader used with one name by callers whose loadModel calls overlap,
\* with three constructions to start
DupInit == Constructed(1, 1, DupMaxLoads)

DupNext ==
    \/ Progress
    \/ \E config \in Configs(DupNames) : RegisterModel(config)
    \/ \E name \in DupNames : LoadModel(name, NoConfig)

DupSpec == DupInit /\ [][DupNext]_vars

\* a loader with room for one model, used with two names and two
\* loadModel functions by callers that pass a config to loadModel
LateInit == Constructed(1, 1, MaxLoads)

LateNext ==
    \/ Progress
    \/ \E config \in LateConfigs : RegisterModel(config)
    \/ \E name \in Names, config \in LateConfigs \cup {NoConfig} :
          LoadModel(name, config)
    \/ \E name \in Names : UnloadModel(name)
    \/ CleanupExpiredModels
    \/ Dispose

LateSpec == LateInit /\ [][LateNext]_vars

\* a loader with room for the two models of its two names
RoomInit == Constructed(2, 1, MaxLoads)

RoomSpec == RoomInit /\ [][Next]_vars

\* The jobs of the suspended calls.  A call suspended at await
\* this.ensureCacheSpace() is resumed by a microtask, which the engine runs;
\* a call suspended at await entry.loadPromise is resumed once the promise
\* of the loadModel function settles, which it does when every invoked
\* loadModel function eventually settles its promise.
Resume == \E c \in 1..Len(calls) : InvokeLoad(c)

Settle ==
    \E c \in 1..Len(calls) :
        \/ SettleFailed(c)
        \/ \E v \in Resolutions(calls[c].promise) : SettleLoaded(c, v)

LiveSpec == Init /\ [][Next]_vars /\ WF_vars(Resume) /\ WF_vars(Settle)

\* ------------------------------------------------ tfjsModelAdapter.js
\* what unloadTfjsModel's const model holds: loadModel is an async
\* function, and the call is not awaited, so it is the call's promise
PROMISE == "Promise"

\* model && typeof model === 'object' && 'dispose' in model, by the class
\* of the value: the tf models have a dispose method, a Promise has none
DisposeIn(class) == class \in {"LayersModel", "GraphModel"}

\* unloadTfjsModel(modelName): the loadModel call, model.dispose() if the
\* test of line 171 holds, then unloadModel.  The promise of the loadModel
\* call is dropped: the call goes on like any other, and nothing handles
\* its rejection.  The outcome added last tells whether dispose() was
\* invoked and the status the entry had.
UnloadTfjsModel(name) ==
    LET r     == loadModel(name, NoConfig, FALSE)
        model == PROMISE
    IN
    /\ Len(calls) + Len(r.suspends) <= MaxCalls
    /\ budget >= r.starts
    /\ modelCache' = unloadModel(r.modelCache, name)
    /\ calls' = calls \o r.suspends
    /\ budget' = budget - r.starts
    /\ settled' = r.settled \o
                    <<Outcome(name, "unloadTfjs",
                              IF DisposeIn(model) THEN "disposed" ELSE "notDisposed",
                              NULL, FALSE, getModelStatus(name), 0)>>
    /\ UNCHANGED <<maxCacheSize, cacheTtl, now>>

\* the singleton aiModelLoader the adapter works on: new AIModelLoader()
\* with the default options (maxCacheSize 5, cacheTtl 30 minutes), used
\* through registerTfjsModel, loadTfjsModel and unloadTfjsModel
TfjsInit == Constructed(5, 30 * 60 * 1000, MaxLoads)

TfjsNext ==
    \/ Progress
    \/ \E config \in Configs(Names) : RegisterModel(config)
    \/ \E name \in Names : LoadModel(name, NoConfig)
    \/ \E name \in Names : UnloadTfjsModel(name)

TfjsSpec == TfjsInit /\ [][TfjsNext]_vars

\* ------------------------------------------------------------ properties
Entries == 1..Len(modelCache)
Suspended == 1..Len(calls)

\* call c runs its own construction: it has set LOADING and has invoked
\* the loadModel function or is about to
Constructing(c) == calls[c].pc \in {"evicted", "awaiting"}

\* the entries of the Map that are LOADED and hold a model object
Holding(tbl) == {i \in LoadedSet(tbl) : Truthy(tbl[i].model)}

\* the entries of the set L of tbl that no entry of L is older than
Oldest(tbl, L) == {i \in L : \A j \in L : tbl[i].lastUsed <= tbl[j].lastUsed}

\* The step is a loadModel(n) call that suspends: as a new construction
\* (Started) or on the promise of one in flight (Joined).
Suspends(n, pc) ==
    /\ Len(calls') = Len(calls) + 1
    /\ calls'[Len(calls')].name = n
    /\ calls'[Len(calls')].pc = pc

Started(n) == Suspends(n, "evicted")
Joined(n) == Suspends(n, "joined")

\* The step is a loadModel(n) call that returns or throws at once.
Returned(n, via) ==
    /\ settled' # settled
    /\ Len(settled') = 1
    /\ settled'[1].name = n
    /\ settled'[1].via = via

\* The step settles the promise that call c awaits, as kind.
Settles(c, kind) ==
    /\ calls[c].pc = "awaiting"
    /\ \A d \in 1..Len(calls') : calls'[d].promise # calls[c].promise
    /\ Len(settled') > 0
    /\ settled'[1].via = "own"
    /\ settled'[1].kind = kind

\* the entry under name n, where the Map has one
EntryOf(tbl, n) == tbl[Get(tbl, n)]

\* C1: single-flight.  Calls of loadModel for one entry that overlap share
\* one construction: never are two of them each awaiting a promise of its
\* own invocation of the entry's loadModel function.
C1_SingleFlight ==
    \A c, d \in Suspended :
        (/\ c # d
         /\ calls[c].entry # ""
         /\ calls[c].entry = calls[d].entry
         /\ calls[c].pc = "awaiting"
         /\ calls[d].pc = "awaiting")
        => calls[c].promise = calls[d].promise

\* C2: LRU eviction.  When maxCacheSize entries are LOADED (each holding a
\* model object) with pairwise different lastUsed, a loadModel call for a
\* further registered name that is IDLE or ERROR unloads exactly one
\* entry: the LOADED entry with the least lastUsed.
C2_EvictsOnlyTheOldest ==
    [][\A n \in Names \cup LruNames :
         (/\ Started(n)
          /\ Has(modelCache, n)
          /\ EntryOf(modelCache, n).status \in {IDLE, ERROR}
          /\ Cardinality(Holding(modelCache)) = maxCacheSize
          /\ LoadedSet(modelCache) = Holding(modelCache)
          /\ \A i, j \in LoadedSet(modelCache) :
                i # j => modelCache[i].lastUsed # modelCache[j].lastUsed)
         => LoadedSet(modelCache) \ LoadedSet(modelCache')
              = Oldest(modelCache, LoadedSet(modelCache))]_vars

\* C3 as claimed: a loadModel call that starts a construction while no
\* more than maxCacheSize entries are LOADED (capacity 1, a LOADED, b
\* registered) leaves every other entry that holds a model object LOADED
\* with that object, and so does the failure of its construction.
C3_LoadLeavesOthersLoaded ==
    [][/\ \A n \in Names :
            (/\ Started(n)
             /\ Has(modelCache, n)
             /\ Cardinality(LoadedSet(modelCache)) <= maxCacheSize)
            => \A i \in Holding(modelCache) :
                  modelCache[i].config.name # n
                  => /\ modelCache'[i].status = LOADED
                     /\ modelCache'[i].model = modelCache[i].model
       /\ \A c \in Suspended :
            Settles(c, "error")
            => \A i \in Holding(modelCache) :
                  modelCache[i].config.name # calls[c].entry
                  => /\ modelCache'[i].status = LOADED
                     /\ modelCache'[i].model = modelCache[i].model]_vars

\* C3 as amended: the failure of a construction changes no entry but the
\* call's own, which becomes ERROR; a loadModel call that starts a
\* construction while the Map holds more than maxCacheSize entries
\* unloads the least recently used LOADED entry when it is made (capacity
\* 1, a LOADED, b registered: loadModel(b) unloads a); and a loadModel call
\* for an entry that is IDLE starts a construction.
C3_FailureLeavesOthers ==
    [][/\ \A c \in Suspended :
            Settles(c, "error")
            => /\ Len(modelCache') = Len(modelCache)
               /\ \A i \in Entries :
                     IF modelCache[i].config.name = calls[c].entry
                     THEN modelCache'[i].status = ERROR
                     ELSE modelCache'[i] = modelCache[i]
       /\ \A n \in Names :
            (Started(n) /\ Has(modelCache, n) /\ Len(modelCache) > maxCacheSize)
            => \A i \in Oldest(modelCache, LoadedSet(modelCache)) :
                  modelCache[i].config.name # n
                  => /\ modelCache'[i].status = IDLE
                     /\ modelCache'[i].model = NULL
       /\ \A n \in Names :
            (/\ Has(modelCache, n)
             /\ EntryOf(modelCache, n).status = IDLE
             /\ Joined(n) \/ Returned(n, "hit") \/ Returned(n, "throw"))
            => FALSE]_vars

\* C3's case: loadModel(b) has failed, b is ERROR, and the call unloaded
\* the one other entry, a, which is IDLE
C3_Witness ==
    /\ maxCacheSize = 1
    /\ Len(settled) = 1
    /\ settled[1].name = "b" /\ settled[1].via = "own" /\ settled[1].kind = "error"
    /\ settled[1].evicts = 1
    /\ Has(modelCache, "a") /\ Has(modelCache, "b")
    /\ EntryOf(modelCache, "b").status = ERROR
    /\ EntryOf(modelCache, "a").status = IDLE

\* C4: capacity bound.  When no entry is LOADING and every construction
\* that was started has settled, at most maxCacheSize entries are LOADED
\* (counting the ones that hold a model object).
C4_CapacityBound ==
    (/\ \A i \in Entries : modelCache[i].status # LOADING
     /\ \A c \in Suspended : ~Constructing(c))
    => Cardinality(Holding(modelCache)) <= maxCacheSize

\* C5: idempotent cache hit.  For an entry that is LOADED and holds a
\* model object: a loadModel call returns that object at once, starting
\* and joining no construction, and sets lastUsed to now; and as long as
\* the entry stays LOADED it holds the same object, so that successive
\* calls return the same instance.
C5_HitReturnsSameInstance ==
    [][\A i \in Entries :
         (modelCache[i].status = LOADED /\ Truthy(modelCache[i].model))
         => LET n == modelCache[i].config.name IN
            /\ ~Started(n) /\ ~Joined(n) /\ ~Returned(n, "throw")
            /\ Returned(n, "hit")
               => /\ settled'[1].val = modelCache[i].model
                  /\ modelCache' = [modelCache EXCEPT ![i].lastUsed = now]
            /\ (/\ Len(modelCache') >= i
                /\ modelCache'[i].config.name = n
                /\ modelCache'[i].status = LOADED)
               => modelCache'[i].model = modelCache[i].model]_vars

\* C6: joining.  A loadModel call for an entry that is LOADING and has its
\* loadPromise stored suspends on that promise: it starts no construction,
\* unloads nothing and changes nothing but the entry's lastUsed.  The
\* promise of a joined call is awaited by the call that invoked the
\* loadModel function, and when it settles the joined calls settle with
\* it, with the same model or the same error.
C6_JoinsInFlight ==
    [][/\ \A i \in Entries :
            (/\ modelCache[i].status = LOADING
             /\ modelCache[i].loadPromise # NULL)
            => LET n == modelCache[i].config.name IN
               /\ ~Started(n) /\ ~Returned(n, "hit") /\ ~Returned(n, "throw")
               /\ Joined(n)
                  => /\ calls'[Len(calls')].promise = modelCache[i].loadPromise
                     /\ modelCache' = [modelCache EXCEPT ![i].lastUsed = now]
                     /\ budget' = budget
       /\ \A c \in 1..Len(calls') :
            calls'[c].pc = "joined"
            => \E d \in 1..Len(calls') :
                  /\ calls'[d].pc = "awaiting"
                  /\ calls'[d].promise = calls'[c].promise
       /\ \A c \in Suspended :
            (Settles(c, "value") \/ Settles(c, "error"))
            => /\ Len(settled')
                    = Cardinality({d \in Suspended : calls[d].promise = calls[c].promise})
               /\ \A k \in 1..Len(settled') :
                     /\ settled'[k].kind = settled'[1].kind
                     /\ settled'[k].val = settled'[1].val]_vars

\* C6's case: a call that joined a construction in flight has settled
\* with it
C6_Witness ==
    /\ Len(settled) = 2
    /\ settled[1].via = "own"
    /\ settled[2].via = "join"
    /\ settled[2].val = settled[1].val

\* C7: the transition to LOADING and the storing of the promise are one
\* step for every other operation: between two steps an entry that is
\* LOADING has a loadPromise, and no loadModel call is suspended anywhere
\* but on the promise of the loadModel function.
C7_AtomicLoading ==
    /\ \A i \in Entries :
          modelCache[i].status = LOADING => modelCache[i].loadPromise # NULL
    /\ \A c \in Suspended : calls[c].pc # "evicted"

\* C8: an entry of the Map holds a model (here: a model object) only
\* while it is LOADED.
C8_ModelOnlyWhenLoaded ==
    \A i \in Entries :
        Truthy(modelCache[i].model) => modelCache[i].status = LOADED

\* C9: an entry of the Map has a loadPromise only while it is LOADING, and
\* has none in the state right after its construction has settled.
C9_PromiseOnlyWhenLoading ==
    [][/\ \A i \in 1..Len(modelCache') :
            modelCache'[i].loadPromise # NULL => modelCache'[i].status = LOADING
       /\ \A c \in Suspended :
            (Settles(c, "value") \/ Settles(c, "error"))
            => \A i \in 1..Len(modelCache') :
                  modelCache'[i].config.name = calls[c].entry
                  => modelCache'[i].loadPromise = NULL]_vars

\* C10: error recovery.  When a construction fails its entry becomes
\* ERROR.  A loadModel call for an entry that is ERROR settles with
\* nothing cached: it starts a construction, which invokes the loadModel
\* function for a new promise; and when that promise is fulfilled the call
\* returns the value it was fulfilled with and the entry is LOADED with
\* that value.  (The entry is the one the call holds: after dispose() it
\* is no longer in the Map.)
C10_ErrorRecovery ==
    [][/\ \A c \in Suspended :
            (Settles(c, "error") /\ calls[c].entry # "")
            => EntryOf(modelCache', calls[c].entry).status = ERROR
       /\ \A i \in Entries :
            modelCache[i].status = ERROR
            => LET n == modelCache[i].config.name IN
               /\ ~Joined(n) /\ ~Returned(n, "hit") /\ ~Returned(n, "throw")
               /\ Started(n)
                  => /\ modelCache'[i].status = LOADING
                     /\ calls'[Len(calls')].found = ERROR
       /\ \A c \in Suspended :
            (calls[c].pc = "evicted" /\ Len(calls') = Len(calls)
             /\ calls'[c].pc = "awaiting")
            => /\ calls'[c].promise # NULL
               /\ calls'[c].promise \notin InUse
       /\ \A c \in Suspended :
            (Settles(c, "value") /\ calls[c].found = ERROR)
            => /\ settled'[1].val \in Resolutions(calls[c].promise)
               /\ calls[c].entry # ""
                  => /\ EntryOf(modelCache', calls[c].entry).status = LOADED
                     /\ EntryOf(modelCache', calls[c].entry).model = settled'[1].val]_vars

\* C10's case: a loadModel call that found its entry ERROR has returned
\* the new model object and the entry is LOADED with it
C10_Witness ==
    /\ Len(settled) = 1
    /\ settled[1].via = "own" /\ settled[1].kind = "value"
    /\ settled[1].found = ERROR
    /\ Truthy(settled[1].val)
    /\ Has(modelCache, settled[1].name)
    /\ EntryOf(modelCache, settled[1].name).status = LOADED
    /\ EntryOf(modelCache, settled[1].name).model = settled[1].val

\* C11: failure propagation.  When the promise a loadModel call awaits is
\* rejected, the entry the call holds becomes ERROR with loadPromise
\* cleared, and the call and every call that returned that promise all
\* settle with the error the promise was rejected with: none of them
\* settles with a value and none stays suspended.  (The entry is the one
\* the call holds: after dispose() it is no longer in the Map.)
C11_FailurePropagates ==
    [][\A c \in Suspended :
         SettleFailed(c)
         => /\ calls[c].entry # ""
               => /\ EntryOf(modelCache', calls[c].entry).status = ERROR
                  /\ EntryOf(modelCache', calls[c].entry).loadPromise = NULL
            /\ Len(settled')
                 = Cardinality({d \in Suspended : calls[d].promise = calls[c].promise})
            /\ \A k \in 1..Len(settled') :
                  /\ settled'[k].kind = "error"
                  /\ settled'[k].val = calls[c].promise
            /\ \A d \in 1..Len(calls') : calls'[d].promise # calls[c].promise]_vars

\* C11's case: a construction has failed with a call joined to it; both
\* calls are rejected with the same error and the entry is ERROR
C11_Witness ==
    /\ Len(settled) = 2
    /\ settled[1].via = "own" /\ settled[1].kind = "error"
    /\ settled[2].via = "join" /\ settled[2].kind = "error"
    /\ settled[2].val = settled[1].val
    /\ Has(modelCache, settled[1].name)
    /\ EntryOf(modelCache, settled[1].name).status = ERROR
    /\ EntryOf(modelCache, settled[1].name).loadPromise = NULL

\* C12: TTL expiry.  cleanupExpiredModels() clears the model of and sets
\* to IDLE exactly the entries that are LOADED with now - lastUsed >
\* cacheTtl, and changes nothing else of them; every other entry, and
\* every suspended call, is as it was; and the clock advancing changes no
\* entry.
C12_TtlExpiry ==
    [][/\ CleanupExpiredModels
          => /\ Len(modelCache') = Len(modelCache)
             /\ \A i \in Entries :
                   IF modelCache[i].status = LOADED
                      /\ now - modelCache[i].lastUsed > cacheTtl
                   THEN modelCache'[i]
                          = [modelCache[i] EXCEPT !.status = IDLE, !.model = NULL]
                   ELSE modelCache'[i] = modelCache[i]
             /\ calls' = calls
       /\ Tick => modelCache' = modelCache]_vars

\* C12's case: one LOADED entry is older than cacheTtl and another is
\* not; cleanupExpiredModels() unloads the first and keeps the second
C12_Witness ==
    \E i, j \in Entries :
        /\ modelCache[i].status = LOADED /\ Truthy(modelCache[i].model)
        /\ now - modelCache[i].lastUsed > cacheTtl
        /\ modelCache[j].status = LOADED /\ Truthy(modelCache[j].model)
        /\ now - modelCache[j].lastUsed = cacheTtl
        /\ cleanupExpiredModels(modelCache, now)[i].status = IDLE
        /\ cleanupExpiredModels(modelCache, now)[j].status = LOADED

\* C13: dispose.  dispose() leaves the Map empty, so that getModelStatus
\* is IDLE for every name, whatever the entries' statuses were; with the
\* Map empty, loadModel(name) without a config throws "not registered"
\* and changes nothing, and registerModel(config) makes the Map hold one
\* new entry: IDLE, no model, no loadPromise, lastUsed now.
C13_DisposeEmptiesTable ==
    [][/\ Dispose
          => /\ modelCache' = <<>>
             /\ \A n \in Names : getModelStatus(n)' = IDLE
       /\ \A n \in Names :
            (modelCache = <<>> /\ LoadModel(n, NoConfig))
            => /\ Len(settled') = 1
               /\ settled'[1].name = n
               /\ settled'[1].via = "throw"
               /\ settled'[1].kind = "notRegistered"
               /\ modelCache' = <<>>
               /\ calls' = calls
               /\ budget' = budget
       /\ \A config \in Configs(Names) :
            (modelCache = <<>> /\ RegisterModel(config))
            => modelCache' = <<[model |-> NULL, status |-> IDLE, lastUsed |-> now,
                                loadPromise |-> NULL, config |-> config]>>]_vars

\* C13's case: dispose() has emptied the Map while a loadModel call was
\* awaiting its construction
C13_Witness ==
    /\ modelCache = <<>>
    /\ \E c \in Suspended : calls[c].entry = "" /\ calls[c].pc = "awaiting"

\* C14: status transitions.  Whenever the status of an entry of the Map
\* changes, the change is one of IDLE -> LOADING, LOADING -> LOADED,
\* LOADING -> ERROR, LOADED -> IDLE, ERROR -> LOADING.  (Stated for the
\* entries that, when LOADED, hold a model object; the entry at a
\* position of the Map is the same entry for as long as the Map has that
\* position.)
C14_StatusTransitions ==
    [][\A i \in Entries :
         (/\ Len(modelCache') >= i
          /\ modelCache'[i].status # modelCache[i].status
          /\ modelCache[i].status = LOADED => Truthy(modelCache[i].model))
         => <<modelCache[i].status, modelCache'[i].status>>
              \in {<<IDLE, LOADING>>, <<LOADING, LOADED>>, <<LOADING, ERROR>>,
                   <<LOADED, IDLE>>, <<ERROR, LOADING>>}]_vars

\* C15: registerModel.  registerModel(config) invokes no loadModel
\* function and touches no suspended call.  For a name the Map does not
\* hold it appends one entry: IDLE, no model, no loadPromise, lastUsed
\* now, config stored; every entry the Map held is as it was.  For a name
\* the Map holds it changes nothing.
C15_RegisterFrame ==
    [][\A config \in Configs(Names) :
         RegisterModel(config)
         => /\ calls' = calls
            /\ budget' = budget
            /\ settled' = <<>>
            /\ IF Has(modelCache, config.name)
               THEN modelCache' = modelCache
               ELSE /\ Len(modelCache') = Len(modelCache) + 1
                    /\ \A i \in Entries : modelCache'[i] = modelCache[i]
                    /\ modelCache'[Len(modelCache')]
                         = [model |-> NULL, status |-> IDLE, lastUsed |-> now,
                            loadPromise |-> NULL, config |-> config]]_vars

\* C15's case: the Map holds a LOADED entry used before now, which
\* registerModel leaves as it is, and behind it an entry as registerModel
\* creates it at the time now
C15_Witness ==
    \E i \in Entries :
        /\ modelCache[i].status = LOADED /\ Truthy(modelCache[i].model)
        /\ modelCache[i].lastUsed < now
        /\ registerModel(modelCache, modelCache[i].config, now) = modelCache
        /\ i < Len(modelCache)
        /\ modelCache[Len(modelCache)]
             = NewEntry(modelCache[Len(modelCache)].config, now)

\* C16: getModelStatus.  getModelStatus(name) changes no entry, creates
\* none, touches no call and throws nothing: it returns the status of the
\* entry under the name, IDLE if the Map holds none.
C16_StatusIsPureRead ==
    [][\A n \in Names :
         GetModelStatus(n)
         => /\ modelCache' = modelCache
            /\ calls' = calls
            /\ budget' = budget
            /\ Len(settled') = 1
            /\ settled'[1].via = "status"
            /\ settled'[1].kind = "value"
            /\ settled'[1].found
                 = IF \E i \in Entries : modelCache[i].config.name = n
                   THEN EntryOf(modelCache, n).status
                   ELSE IDLE]_vars

\* C16's case: getModelStatus has returned LOADING for an entry in flight,
\* and the Map holds no entry under the other name
C16_Witness ==
    /\ Len(settled) = 1
    /\ settled[1].via = "status"
    /\ settled[1].found = LOADING
    /\ Has(modelCache, settled[1].name)
    /\ EntryOf(modelCache, settled[1].name).status = LOADING
    /\ \E n \in Names : ~Has(modelCache, n) /\ getModelStatus(n) = IDLE

\* C17: not registered.  loadModel(name) without a config for a name the
\* Map does not hold throws "not registered": it changes no entry and
\* creates none, unloads nothing, starts and joins no construction, so
\* that getModelStatus(name) is IDLE afterwards and the Map still does not
\* hold the name.
C17_NotRegistered ==
    [][\A n \in Names :
         (LoadModel(n, NoConfig) /\ ~Has(modelCache, n))
         => /\ Len(settled') = 1
            /\ settled'[1].name = n
            /\ settled'[1].via = "throw"
            /\ settled'[1].kind = "notRegistered"
            /\ modelCache' = modelCache
            /\ calls' = calls
            /\ budget' = budget
            /\ ~Has(modelCache', n)
            /\ getModelStatus(n)' = IDLE]_vars

\* C17's case: loadModel has thrown "not registered" for a name while the
\* Map holds a LOADED entry under another name
C17_Witness ==
    /\ Len(settled) = 1
    /\ settled[1].via = "throw"
    /\ settled[1].kind = "notRegistered"
    /\ ~Has(modelCache, settled[1].name)
    /\ \E i \in Entries : modelCache[i].status = LOADED /\ Truthy(modelCache[i].model)

\* C18: unloadModel.  unloadModel(name) touches no suspended call and no
\* entry but the one under the name, and that one only when it is LOADED:
\* it clears its model and sets it IDLE, leaving lastUsed, loadPromise and
\* config.  A construction in flight goes on: when its promise settles
\* the entry (if still in the Map) becomes LOADED or ERROR.
C18_UnloadFrame ==
    [][/\ \A n \in Names :
            UnloadModel(n)
            => /\ calls' = calls
               /\ budget' = budget
               /\ Len(modelCache') = Len(modelCache)
               /\ \A i \in Entries :
                     IF modelCache[i].config.name = n /\ modelCache[i].status = LOADED
                     THEN modelCache'[i]
                            = [modelCache[i] EXCEPT !.model = NULL, !.status = IDLE]
                     ELSE modelCache'[i] = modelCache[i]
       /\ \A c \in Suspended :
            ((Settles(c, "value") \/ Settles(c, "error")) /\ calls[c].entry # "")
            => EntryOf(modelCache', calls[c].entry).status \in {LOADED, ERROR}]_vars

\* C18's case: the Map holds a LOADED entry, which unloadModel makes IDLE,
\* and an entry whose construction is in flight, which unloadModel leaves
\* as it is
C18_Witness ==
    \E i, j \in Entries :
        /\ modelCache[i].status = LOADED /\ Truthy(modelCache[i].model)
        /\ unloadModel(modelCache, modelCache[i].config.name)[i].status = IDLE
        /\ unloadModel(modelCache, modelCache[i].config.name)[i].model = NULL
        /\ modelCache[j].status = LOADING /\ modelCache[j].loadPromise # NULL
        /\ unloadModel(modelCache, modelCache[j].config.name) = modelCache
        /\ \E c \in Suspended :
              calls[c].entry = modelCache[j].config.name /\ calls[c].pc = "awaiting"

\* C19: preloadModel.  preloadModel(name) does nothing at all (no entry,
\* not even its lastUsed, no call, nothing returned or thrown) unless the
\* Map holds the name with status IDLE; then it starts one construction,
\* whose failure goes to its own handler, and the entry is LOADING.  An
\* entry that is LOADING stays LOADING until a construction of that entry
\* settles, so that further preloadModel calls before that start none.
C19_PreloadOnlyWhenIdle ==
    [][/\ \A n \in Names :
            PreloadModel(n)
            => IF Has(modelCache, n) /\ EntryOf(modelCache, n).status = IDLE
               THEN /\ Started(n)
                    /\ calls'[Len(calls')].detached
                    /\ budget' = budget - 1
                    /\ EntryOf(modelCache', n).status = LOADING
                    /\ settled' = <<>>
               ELSE /\ modelCache' = modelCache
                    /\ calls' = calls
                    /\ budget' = budget
                    /\ settled' = <<>>
       /\ \A i \in Entries :
            (/\ modelCache[i].status = LOADING
             /\ Len(modelCache') >= i
             /\ modelCache'[i].status # LOADING)
            => \E c \in Suspended :
                  /\ calls[c].entry = modelCache[i].config.name
                  /\ Settles(c, "value") \/ Settles(c, "error")]_vars

\* C19's case: preloadModel has started the one construction in flight,
\* which awaits its promise, and the entry is LOADING
C19_Witness ==
    /\ Len(calls) = 1
    /\ calls[1].detached
    /\ calls[1].pc = "awaiting"
    /\ calls[1].entry # ""
    /\ EntryOf(modelCache, calls[1].entry).status = LOADING
    /\ budget = MaxLoads - 1

\* C20: load after preload.  While the construction that preloadModel
\* started for an entry is in flight, a loadModel call for the entry
\* starts no construction of its own: it is suspended on the promise of
\* preloadModel's construction.
C20_LoadJoinsPreload ==
    \A c, d \in Suspended :
        (/\ calls[c].detached
         /\ Constructing(c)
         /\ ~calls[d].detached
         /\ calls[c].entry # ""
         /\ calls[d].entry = calls[c].entry)
        => /\ calls[d].pc = "joined"
           /\ calls[d].promise = calls[c].promise

\* C21: lastUsed.  A loadModel call for a name the Map holds sets the
\* entry's lastUsed to now, whatever the entry's status and whether the
\* call returns the model, joins a construction or starts one; and the
\* later steps of the call (invoking the loadModel function, its promise
\* being fulfilled or rejected) leave every lastUsed as it is.  (A
\* loadModel call for a name the Map holds either is suspended or returns
\* the model at once.)
C21_LoadTouches ==
    [][/\ \A n \in Names, config \in Configs(Names) \cup {NoConfig} :
            (/\ Has(modelCache, n)
             /\ Len(calls') > Len(calls) \/ settled' # <<>>
             /\ settled' # <<>> => settled'[1].via = "hit"
             /\ LoadModel(n, config))
            => /\ Has(modelCache', n)
               /\ EntryOf(modelCache', n).lastUsed = now
       /\ \A c \in Suspended :
            (/\ calls' # calls
             /\ \/ InvokeLoad(c)
                \/ SettleFailed(c)
                \/ \E v \in Resolutions(calls[c].promise) : SettleLoaded(c, v))
            => /\ Len(modelCache') = Len(modelCache)
               /\ \A i \in Entries : modelCache'[i].lastUsed = modelCache[i].lastUsed]_vars

\* C21's case: a loadModel call has returned the model of an entry that
\* was last used before, and the entry's lastUsed is now
C21_Witness ==
    /\ Len(settled) = 1
    /\ settled[1].via = "hit"
    /\ now = MaxTime
    /\ Has(modelCache, settled[1].name)
    /\ EntryOf(modelCache, settled[1].name).lastUsed = now
    /\ \E i \in Entries : modelCache[i].lastUsed < now

\* C22: only loadModel throws.  registerModel, unloadModel,
\* cleanupExpiredModels and preloadModel hand their caller nothing, no
\* exception and no rejected promise, and getModelStatus hands it a value,
\* in every state and for every name; the loadModel call that
\* preloadModel makes has its rejection caught by preloadModel's handler:
\* when its construction fails the entry it holds is ERROR and the error
\* goes to that handler.
C22_OnlyLoadThrows ==
    [][/\ \A config \in Configs(Names) : RegisterModel(config) => settled' = <<>>
       /\ \A n \in Names : UnloadModel(n) => settled' = <<>>
       /\ CleanupExpiredModels => settled' = <<>>
       /\ \A n \in Names :
            GetModelStatus(n) => \A k \in 1..Len(settled') : settled'[k].kind = "value"
       /\ \A n \in Names :
            PreloadModel(n)
            => /\ settled' = <<>>
               /\ \A c \in 1..Len(calls') : c > Len(calls) => calls'[c].detached
       /\ \A c \in Suspended :
            (calls[c].detached /\ calls' # calls /\ SettleFailed(c))
            => /\ settled'[1].via = "own"
               /\ settled'[1].kind = "error"
               /\ settled'[1].detached
               /\ calls[c].entry # ""
                  => EntryOf(modelCache', calls[c].entry).status = ERROR]_vars

\* C22's case: the construction preloadModel started has failed; the
\* error went to preloadModel's handler and the entry is ERROR
C22_Witness ==
    /\ Len(settled) = 1
    /\ settled[1].via = "own"
    /\ settled[1].kind = "error"
    /\ settled[1].detached
    /\ Has(modelCache, settled[1].name)
    /\ EntryOf(modelCache, settled[1].name).status = ERROR

\* C23: unloadTfjsModel on a LOADED entry.  unloadTfjsModel(name) for an
\* entry that is LOADED with a model object invokes dispose() on the
\* model and leaves the entry IDLE.
C23_TfjsUnloadDisposes ==
    [][\A n \in Names :
         (/\ Has(modelCache, n)
          /\ EntryOf(modelCache, n).status = LOADED
          /\ Truthy(EntryOf(modelCache, n).model)
          /\ UnloadTfjsModel(n))
         => /\ settled'[Len(settled')].via = "unloadTfjs"
            /\ settled'[Len(settled')].kind = "disposed"
            /\ EntryOf(modelCache', n).status = IDLE]_vars

\* C24: unloadTfjsModel elsewhere.  unloadTfjsModel(name) for an entry
\* that is IDLE or ERROR starts no construction, suspends no call,
\* unloads nothing and leaves the entry's status as it is; for a name the
\* Map does not hold it produces no exception and no rejected promise.
C24_TfjsUnloadStartsNothing ==
    [][\A n \in Names :
         UnloadTfjsModel(n)
         => /\ (Has(modelCache, n) /\ EntryOf(modelCache, n).status \in {IDLE, ERROR})
               => /\ budget' = budget
                  /\ calls' = calls
                  /\ Len(modelCache') = Len(modelCache)
                  /\ \A i \in Entries : modelCache'[i].status = modelCache[i].status
            /\ ~Has(modelCache, n)
               => \A k \in 1..Len(settled') :
                     settled'[k].kind \notin {"notRegistered", "error"}]_vars

\* C25: no automatic retry.  An entry of the Map that is ERROR stays ERROR
\* until a loadModel call for it, made by a caller while it is ERROR,
\* sets it LOADING (or dispose() clears the Map); and while it is ERROR
\* no loadModel function is invoked for it.
C25_NoAutomaticRetry ==
    [][\A i \in Entries :
         (modelCache[i].status = ERROR /\ Len(modelCache') >= i)
         => LET n == modelCache[i].config.name IN
            /\ modelCache'[i].status # ERROR
               => /\ modelCache'[i].status = LOADING
                  /\ Started(n)
                  /\ ~calls'[Len(calls')].detached
            /\ \A c \in Suspended :
                  (calls[c].entry = n /\ calls[c].pc = "evicted")
                  => (Len(calls') = Len(calls) => calls'[c].pc = "evicted")]_vars

\* C26: liveness, and no terminal state.  When every invoked loadModel
\* function settles its promise: every promise a loadModel call awaits or
\* has returned settles, so that again and again no call is suspended; an
\* entry that is LOADING comes to be LOADED or ERROR with no loadPromise
\* (or dispose() takes it out of the Map); and the call whose loadModel
\* function succeeds, whichever status it found the entry in, leaves it
\* LOADED.
C26_Liveness ==
    /\ \A p \in 1..(MaxLoads + 1) :
          (\E c \in Suspended : calls[c].promise = p)
          ~> ~(\E c \in Suspended : calls[c].promise = p)
    /\ []<>(calls = <<>>)
    /\ \A n \in Names :
          (Has(modelCache, n) /\ EntryOf(modelCache, n).status = LOADING)
          ~> \/ ~Has(modelCache, n)
             \/ /\ EntryOf(modelCache, n).status \in {LOADED, ERROR}
                /\ EntryOf(modelCache, n).loadPromise = NULL
    /\ [][\A c \in Suspended :
            (Settles(c, "value") /\ calls[c].entry # "")
            => /\ EntryOf(modelCache', calls[c].entry).status = LOADED
               /\ EntryOf(modelCache', calls[c].entry).loadPromise = NULL]_vars

\* a call that found its entry in ERROR has settled with the value its
\* loadModel function resolved to, the entry is LOADED and no call is
\* suspended
C26_Witness ==
    /\ calls = <<>>
    /\ Len(settled) = 1
    /\ settled[1].via = "own"
    /\ settled[1].kind = "value"
    /\ settled[1].found = ERROR
    /\ Has(modelCache, settled[1].name)
    /\ EntryOf(modelCache, settled[1].name).status = LOADED
    /\ EntryOf(modelCache, settled[1].name).loadPromise = NULL

\* C27: late registration.  A loadModel(n, config) call for a name n the
\* Map does not have, with a config of that name, registers n with the
\* config and goes on as a load from IDLE: it sets LOADING and starts one
\* construction, with the config's loadModel function, which ends LOADED
\* or ERROR.  From then on n stays in the Map until dispose(), whatever
\* becomes of the load: a loadModel(n) call without a config does not
\* throw, and the construction it starts uses the loadModel function of
\* the entry's config.
C27_LateRegistration ==
    [][/\ \A n \in Names, config \in LateConfigs :
            (/\ ~Has(modelCache, n)
             /\ config.name = n
             /\ (calls' # calls \/ settled' # <<>>)
             /\ LoadModel(n, config))
            => /\ Len(modelCache') = Len(modelCache) + 1
               /\ Has(modelCache', n)
               /\ EntryOf(modelCache', n) =
                     [NewEntry(config, now) EXCEPT !.status = LOADING]
               /\ Started(n)
               /\ calls'[Len(calls')].ctor = config.ctor
               /\ calls'[Len(calls')].found = IDLE
               /\ budget' = budget - 1
       /\ \A c \in Suspended :
            /\ (Settles(c, "value") /\ calls[c].entry # "")
               => EntryOf(modelCache', calls[c].entry).status = LOADED
            /\ (Settles(c, "error") /\ calls[c].entry # "")
               => EntryOf(modelCache', calls[c].entry).status = ERROR
       /\ \A n \in Names :
            Has(modelCache, n)
            => /\ ~Has(modelCache', n) => modelCache' = <<>>
               /\ ((calls' # calls \/ settled' # <<>>) /\ LoadModel(n, NoConfig))
                  => /\ ~Returned(n, "throw")
                     /\ Started(n)
                        => calls'[Len(calls')].ctor = EntryOf(modelCache, n).config.ctor]_vars

\* a loadModel call without a config has found the entry in ERROR and has
\* started a construction with the loadModel function "reload" of the
\* entry's config
C27_Witness ==
    \E c \in Suspended :
        /\ calls[c].pc = "evicted"
        /\ calls[c].found = ERROR
        /\ calls[c].ctor = "reload"
        /\ calls[c].entry # ""
        /\ EntryOf(modelCache, calls[c].entry).config.ctor = "reload"
        /\ EntryOf(modelCache, calls[c].entry).status = LOADING

\* C28: the stored loadModel function.  The config of an entry does not
\* change while the entry is in the Map: no step but dispose() takes an
\* entry out of the Map, and every other step (unloadModel, the eviction of
\* ensureCacheSpace, cleanupExpiredModels, a failed load, registerModel of
\* a registered name, loadModel with another config) leaves each entry's
\* config as it is.  A loadModel(n) call without a config for an entry
\* that is IDLE or ERROR starts a construction, and the loadModel function
\* the call invokes when it resumes is that of the entry's config.
C28_StoredConstructor ==
    [][/\ modelCache' # <<>>
          => \A i \in Entries :
                /\ Len(modelCache') >= i
                /\ modelCache'[i].config = modelCache[i].config
       /\ \A n \in Names :
            (/\ Has(modelCache, n)
             /\ EntryOf(modelCache, n).status \in {IDLE, ERROR}
             /\ (calls' # calls \/ settled' # <<>>)
             /\ LoadModel(n, NoConfig))
            => /\ Started(n)
               /\ calls'[Len(calls')].ctor = EntryOf(modelCache, n).config.ctor
       /\ \A c \in Suspended :
            (calls[c].pc = "evicted" /\ Len(calls') = Len(calls)
               /\ calls'[c].pc = "awaiting")
            => calls'[c].ctor = calls[c].ctor]_vars

\* every construction the callers start has settled: an entry whose config
\* has the loadModel function "reload" is IDLE and another entry is LOADED
C28_Witness ==
    /\ budget = 0
    /\ calls = <<>>
    /\ \E i \in Entries :
          /\ modelCache[i].config.ctor = "reload"
          /\ modelCache[i].status = IDLE
          /\ \E j \in Entries : j # i /\ modelCache[j].status = LOADED

\* entry e once unloadModel has unloaded it
Unloaded(e) == [e EXCEPT !.model = NULL, !.status = IDLE]

\* C29: the frame of the eviction pass.  ensureCacheSpace() runs in the
\* loadModel calls that start a construction, and in those steps: no entry
\* leaves the Map; no entry's config changes; the entry being loaded is
\* LOADING with its model as it was; every other entry keeps its lastUsed,
\* is unchanged if it was not LOADED, and is unchanged or unloaded (model
\* null, status IDLE) if it was LOADED.  The same holds of
\* ensureCacheSpace() run on the Map of any state.
C29_EvictionFrame ==
    [][/\ \A n \in Names :
            Started(n)
            => /\ Len(modelCache') >= Len(modelCache)
               /\ \A i \in Entries :
                    LET e == modelCache[i]
                        f == modelCache'[i]
                    IN
                    IF e.config.name = n
                    THEN f = [e EXCEPT !.status = LOADING, !.lastUsed = now]
                    ELSE /\ e.status # LOADED => f = e
                         /\ e.status = LOADED => f \in {e, Unloaded(e)}
               /\ \A i \in (Len(modelCache) + 1)..Len(modelCache') :
                    /\ modelCache'[i].config.name = n
                    /\ modelCache'[i].status = LOADING
       /\ LET room == ensureCacheSpace(modelCache) IN
          /\ Len(room) = Len(modelCache)
          /\ \A i \in Entries :
               /\ modelCache[i].status # LOADED => room[i] = modelCache[i]
               /\ modelCache[i].status = LOADED
                  => room[i] \in {modelCache[i], Unloaded(modelCache[i])}]_vars

\* a loadModel call has started a construction with the Map over
\* capacity: its ensureCacheSpace() has unloaded an entry, which is IDLE,
\* and the entry being loaded is LOADING
C29_Witness ==
    \E c \in Suspended :
        /\ calls[c].pc = "evicted"
        /\ calls[c].evicts = 1
        /\ Len(modelCache) > maxCacheSize
        /\ calls[c].entry # ""
        /\ EntryOf(modelCache, calls[c].entry).status = LOADING
        /\ \E i \in Entries : modelCache[i].status = IDLE /\ modelCache[i].model = NULL

\* C30: the order and the end of the eviction pass.  In a loadModel call
\* that starts a construction, ensureCacheSpace() runs on the Map with the
\* entry being loaded LOADING.  Its snapshot is the LOADED entries in
\* ascending order of lastUsed.  With no more entries in the Map than
\* maxCacheSize it unloads nothing.  With more, its loop unloads the
\* entries of the snapshot one at a time from the front (after k
\* iterations the first k are unloaded and nothing else has changed) and
\* ends when the snapshot is empty, the size of the Map being what it was.
C30_EvictionOrder ==
    [][\A n \in LruNames :
          (Started(n) /\ Has(modelCache, n))
          => LET i    == Get(modelCache, n)
                 pre  == [modelCache EXCEPT ![i].status = LOADING, ![i].lastUsed = now]
                 snap == LoadedOldestFirst(pre)
             IN
             /\ Len(snap) = Cardinality(LoadedSet(pre))
             /\ \A j \in LoadedSet(pre) : \E m \in 1..Len(snap) : snap[m] = pre[j]
             /\ \A l, m \in 1..Len(snap) : l < m => snap[l].lastUsed <= snap[m].lastUsed
             /\ Len(pre) <= maxCacheSize
                => /\ modelCache' = pre
                   /\ calls'[Len(calls')].evicts = 0
             /\ Len(pre) > maxCacheSize
                => /\ \A k \in 0..Len(snap) :
                        LET t == EvictLoop(SubSeq(snap, 1, k), pre) IN
                        /\ Len(t) = Len(pre)
                        /\ \A j \in 1..Len(pre) :
                             t[j] = IF \E m \in 1..k : snap[m] = pre[j]
                                    THEN Unloaded(pre[j])
                                    ELSE pre[j]
                   /\ modelCache' = EvictLoop(snap, pre)
                   /\ LoadedSet(modelCache') = {}
                   /\ calls'[Len(calls')].evicts = Len(snap)]_vars

\* a loadModel call has started a construction with three entries in the
\* Map: its ensureCacheSpace() has unloaded two entries of different
\* lastUsed
C30_Witness ==
    \E c \in Suspended :
        /\ calls[c].pc = "evicted"
        /\ calls[c].evicts = 2
        /\ Len(modelCache) = 3
        /\ \E i, j \in Entries :
              /\ modelCache[i].status = IDLE
              /\ modelCache[j].status = IDLE
              /\ modelCache[i].lastUsed < modelCache[j].lastUsed

\* The step is a loadModel or preloadModel call for name n: it suspends,
\* returns entry.model or throws.
Loads(n) ==
    \/ Started(n)
    \/ Joined(n)
    \/ Returned(n, "hit")
    \/ Returned(n, "throw")

\* C31: no eviction under capacity.  While the Map has no more entries
\* than maxCacheSize, a loadModel or preloadModel call leaves every LOADED
\* entry but its own as it is, and its own LOADED with its model or, where
\* it starts a construction, LOADING; and a step that takes a LOADED entry
\* to IDLE is unloadModel, cleanupExpiredModels or (the Map then empty)
\* dispose.
C31_NoEvictionUnderCapacity ==
    [][Len(modelCache') <= maxCacheSize
       => /\ \A n \in Names :
               Loads(n)
               => \A i \in Entries :
                     modelCache[i].status = LOADED
                     => IF modelCache[i].config.name = n
                        THEN /\ modelCache'[i].status \in {LOADED, LOADING}
                             /\ modelCache'[i].model = modelCache[i].model
                        ELSE modelCache'[i] = modelCache[i]
          /\ \A i \in Entries :
               (/\ modelCache[i].status = LOADED
                /\ modelCache' # <<>>
                /\ modelCache'[i].status = IDLE)
               => /\ calls' = calls
                  /\ budget' = budget
                  /\ settled' = <<>>
                  /\ \/ modelCache' = cleanupExpiredModels(modelCache, now)
                     \/ \E n \in Names : modelCache' = unloadModel(modelCache, n)]_vars

\* a loadModel call has started a construction for one entry while the
\* other entry is LOADED with a model, in a Map of two entries with room
\* for two
C31_Witness ==
    /\ Len(modelCache) = 2
    /\ maxCacheSize = 2
    /\ \E c \in Suspended :
          /\ calls[c].pc = "evicted"
          /\ calls[c].evicts = 0
          /\ \E i \in Entries :
                /\ modelCache[i].config.name # calls[c].entry
                /\ modelCache[i].status = LOADED
                /\ Truthy(modelCache[i].model)

\* C32: eviction only with a new construction.  A loadModel call for an
\* entry that is LOADED, or that is LOADING with a loadPromise stored,
\* starts no construction and changes nothing in the Map but the entry's
\* lastUsed: it unloads no entry, whatever the size of the Map.
C32_HitAndJoinOnlyTouch ==
    [][\A n \in Names :
          (/\ Has(modelCache, n)
           /\ \/ EntryOf(modelCache, n).status = LOADED
              \/ IsInFlight(EntryOf(modelCache, n))
           /\ Loads(n))
          => /\ ~Started(n)
             /\ budget' = budget
             /\ modelCache' = [modelCache EXCEPT ![Get(modelCache, n)].lastUsed = now]]_vars

\* C33: the TTL of a fresh entry.  When a construction is fulfilled and
\* its entry becomes LOADED, a cleanupExpiredModels() call made at that
\* moment, before any time has passed, leaves the entry LOADED: the age
\* the sweep measures starts when the load completes.
C33_FreshEntrySurvivesSweep ==
    [][\A c \in Suspended :
          (Settles(c, "value") /\ calls[c].entry # "")
          => LET n == calls[c].entry IN
             /\ EntryOf(modelCache', n).status = LOADED
             /\ EntryOf(cleanupExpiredModels(modelCache', now'), n).status = LOADED]_vars

\* C34: the not-registered failure.  A loadModel call that throws "not
\* registered" leaves the Map as it was, and a loadModel(n, config) call
\* for a name n the Map does not have leaves n in the Map, whether or not
\* config.name is n.
C34_NotRegisteredLeavesTable ==
    [][\A n \in Names :
          /\ Returned(n, "throw") => modelCache' = modelCache
          /\ \A config \in Configs(Names) :
                (/\ ~Has(modelCache, n)
                 /\ (calls' # calls \/ settled' # <<>>)
                 /\ LoadModel(n, config))
                => Has(modelCache', n)]_vars

\* The step is call c going on after one of its awaits: it invokes its
\* loadModel function, or the promise it awaits settles.
Resumes(c) ==
    \/ calls[c].pc = "evicted" /\ Len(calls') = Len(calls) /\ calls'[c].pc = "awaiting"
    \/ Settles(c, "value")
    \/ Settles(c, "error")

\* C35: dispose() during a construction.  dispose() empties the Map and
\* leaves the suspended calls suspended.  A call whose entry dispose() has
\* taken out of the Map goes on and settles, with the value or the error
\* of its construction, and changes nothing in the Map: it puts no entry
\* back, and where the name has been registered again the new entry keeps
\* its status and model.  No call that resumes adds or removes an entry,
\* and a loadModel(n) call without a config for a name the Map does not
\* have throws.
C35_DisposeDuringLoad ==
    [][/\ (modelCache # <<>> /\ modelCache' = <<>>)
          => /\ Len(calls') = Len(calls)
             /\ \A c \in Suspended :
                   /\ calls'[c].entry = ""
                   /\ calls'[c].pc = calls[c].pc
                   /\ calls'[c].promise = calls[c].promise
             /\ settled' = <<>>
             /\ \A n \in Names : ~Has(modelCache', n)
       /\ \A c \in Suspended :
            Resumes(c)
            => /\ Len(modelCache') = Len(modelCache)
               /\ \A i \in Entries : modelCache'[i].config = modelCache[i].config
               /\ calls[c].entry = "" => modelCache' = modelCache
               /\ calls[c].pc = "awaiting"
                  => /\ settled'[1].name = calls[c].name
                     /\ settled'[1].kind = "value" => settled'[1].val \in Resolutions(calls[c].promise)
                     /\ settled'[1].kind = "error" => settled'[1].val = calls[c].promise
       /\ \A n \in Names :
            (/\ ~Has(modelCache, n)
             /\ (calls' # calls \/ settled' # <<>>)
             /\ LoadModel(n, NoConfig))
            => /\ Returned(n, "throw")
               /\ modelCache' = modelCache]_vars

\* dispose() has run during a construction and the name has been
\* registered again: the call awaits its promise, its entry is out of the
\* Map, and the Map has a new entry of the name, which is IDLE
C35_Witness ==
    \E c \in Suspended :
        /\ calls[c].pc = "awaiting"
        /\ calls[c].entry = ""
        /\ Has(modelCache, calls[c].name)
        /\ EntryOf(modelCache, calls[c].name).status = IDLE

\* C36: the cache hit for every value.  A loadModel call for an entry
\* that is LOADED returns the entry's model, whatever value the loadModel
\* function resolved to, leaves the entry LOADED and starts no
\* construction.
C36_HitForEveryValue ==
    [][\A n \in Names :
          (/\ Has(modelCache, n)
           /\ EntryOf(modelCache, n).status = LOADED
           /\ Loads(n))
          => /\ Returned(n, "hit")
             /\ settled'[1].kind = "value"
             /\ settled'[1].val = EntryOf(modelCache, n).model
             /\ EntryOf(modelCache', n).status = LOADED
             /\ budget' = budget]_vars

====
